---------------------------- MODULE Spec2Model ----------------------------
(***************************************************************************)
(* A model of the microzoo processor (TypeScript):                         *)
(*   - common/Mapper.ts             (src/unnamed/part_000)                 *)
(*   - deployment/PortForwardManager.ts (src/unnamed/part_001)             *)
(*   - common/spawn.ts              (src/processor/src/common/spawn.ts)    *)
(*   - index.ts and config/globalConfig.ts                                 *)
(* Strings are sequences of one-character strings, so that toLowerCase,    *)
(* replace and indexOf are computed character by character.                *)
(* Each unit has its own specification (SpecMapper, SpecTunnel, SpecSpawn, *)
(* SpecCli); the variables of the other units stay at their initial value. *)
(***************************************************************************)
EXTENDS Integers, Sequences, FiniteSets, TLC

VARIABLES
    \* ---- Mapper (pure functions, applied to a drawn input)
    mInput,         \* the string handed to the Mapper function
    mOp,            \* "none" or the function applied last
    mResult,        \* its result (Undefined when nothing was returned)
    \* ---- PortForwardManager and its subprocesses
    supervisor,     \* "running" | "crashed" (uncaught exception) | "terminated" (interrupt)
    groups,         \* one record per start call: its portInfos, its closure variable, its logs
    procs,          \* one record per launched subprocess; the index is the pid
    \* ---- one spawn.promise call and its child process
    spPc,           \* "idle" | "running" (child alive) | "closed" | "failed" (launch threw)
    spOptions,      \* the options argument of the call
    child,          \* what the child wrote: [stdout, stderr: sequences of chunks], and its close code
    collector,      \* the StreamCollector's fields [stdout, stderr]
    promise,        \* [state: "pending" | "resolved" | "rejected", value: the result]
    onExitCalls,    \* how often the collector's onExit has been called
    thrown,         \* whether the call threw to its caller
    \* ---- one run of the command line program (index.ts)
    argv,           \* the command line: [command, target, hook (the build reads a config file)]
    configFile,     \* the config file: [status, object]
    cliPc,          \* "boot" | "registered" | "parsed" | "hooked" | "pending" | "exited"
    registered,     \* the identifiers handed to DeployerFactory.register, in call order
    programTarget,  \* program.opts().target after parsing
    globalConfig,   \* the module variable of config/globalConfig.ts
    dispatched,     \* the command function called by the action: [command, target]
    outcome,        \* how the command's promise settled
    exitCode,       \* the exit code of the process
    logged,         \* what the catch handlers have logged
    \* ---- one request sent to the Java service and to the Go services
    svConfig,       \* the configuration: [db, dbHealthy, upstreamServices, entityCount]
    svRequest,      \* the request: [op: "getAll" | "create", valid, dto]
    javaRepository, \* the rows behind BaseRepository
    goDatabase,     \* the rows of the Go service's "base" table or collection
    javaResult,     \* what BaseService returned
    goResult,       \* the response of main.go
    goLegacyResult  \* the response of the Go service without database support

mapperVars == <<mInput, mOp, mResult>>
tunnelVars == <<supervisor, groups, procs>>
spawnVars == <<spPc, spOptions, child, collector, promise, onExitCalls, thrown>>
cliVars == <<argv, configFile, cliPc, registered, programTarget, globalConfig,
             dispatched, outcome, exitCode, logged>>

serviceVars == <<svConfig, svRequest, javaRepository, goDatabase, javaResult,
                 goResult, goLegacyResult>>

\* What a step of one unit leaves alone: the variables of the other units.
MapperFrame == UNCHANGED <<tunnelVars, spawnVars, cliVars, serviceVars>>
TunnelFrame == UNCHANGED <<mapperVars, spawnVars, cliVars, serviceVars>>
SpawnFrame == UNCHANGED <<mapperVars, tunnelVars, cliVars, serviceVars>>
CliFrame == UNCHANGED <<mapperVars, tunnelVars, spawnVars, serviceVars>>
ServiceFrame == UNCHANGED <<mapperVars, tunnelVars, spawnVars, cliVars>>
vars == <<mInput, mOp, mResult, supervisor, groups, procs,
          spPc, spOptions, child, collector, promise, onExitCalls, thrown,
          argv, configFile, cliPc, registered, programTarget, globalConfig,
          dispatched, outcome, exitCode, logged,
          svConfig, svRequest, javaRepository, goDatabase, javaResult,
          goResult, goLegacyResult>>

\* What a function call yields: a returned value, or nothing (undefined).
Returned(v) == [returned |-> TRUE, value |-> v]
Undefined == [returned |-> FALSE, value |-> <<>>]

-----------------------------------------------------------------------------
(***************************************************************************)
(* Strings                                                                 *)
(***************************************************************************)

\* Longest Mapper input drawn from the alphabet.
MaxNameLen == 3

Alphabet == {"A", "b", " ", "/"}

\* The upper-case letters that occur in the inputs, with their lower case.
UpperToLower ==
    [c \in {"A", "E", "H", "P", "R", "S", "T"} |->
        CASE c = "A" -> "a" [] c = "E" -> "e" [] c = "H" -> "h" [] c = "P" -> "p"
          [] c = "R" -> "r" [] c = "S" -> "s" [] c = "T" -> "t"]

IsUpper(c) == c \in DOMAIN UpperToLower

\* String.prototype.toLowerCase on one character.
LowerChar(c) == IF IsUpper(c) THEN UpperToLower[c] ELSE c

toLowerCase(s) == [i \in 1..Len(s) |-> LowerChar(s[i])]

\* String.prototype.indexOf: the 0-based index of the first occurrence, or -1.
indexOf(hay, needle) ==
    LET n == Len(needle)
        hits == {i \in 1..(Len(hay) - n + 1) : SubSeq(hay, i, i + n - 1) = needle}
    IN  IF hits = {} THEN -1
        ELSE (CHOOSE i \in hits : \A j \in hits : i <= j) - 1

\* String.prototype.replace with a string pattern: only the FIRST occurrence
\* of the pattern is replaced.
replace(s, pattern, by) ==
    LET at == indexOf(s, pattern)
    IN  IF at = -1 THEN s
        ELSE SubSeq(s, 1, at) \o by \o SubSeq(s, at + Len(pattern) + 1, Len(s))

\* Every occurrence replaced, left to right (what a /g regular expression does).
RECURSIVE replaceAll(_, _, _)
replaceAll(s, pattern, by) ==
    LET at == indexOf(s, pattern)
    IN  IF at = -1 THEN s
        ELSE SubSeq(s, 1, at) \o by
             \o replaceAll(SubSeq(s, at + Len(pattern) + 1, Len(s)), pattern, by)

-----------------------------------------------------------------------------
(***************************************************************************)
(* Mapper                                                                  *)
(***************************************************************************)

\* The id with every space removed.
toIdAllSpaces(name) == replaceAll(toLowerCase(name), <<" ">>, <<>>)

\* Mapper.toId: name.toLowerCase().replace(" ", "")
toId(name) == replace(toLowerCase(name), <<" ">>, <<>>)

\* The protocol with every "/" replaced.
toProtocolAllSlashes(type) == toLowerCase(replaceAll(type, <<"/">>, <<"-">>))

\* Mapper.toProtocol: type.replace("/", "-").toLowerCase()
toProtocol(type) == toLowerCase(replace(type, <<"/">>, <<"-">>))

HttpRest == <<"h", "t", "t", "p", "-", "r", "e", "s", "t">>
Http == <<"h", "t", "t", "p">>

\* Mapper.toUrlProtocol: "http" for "http-rest", otherwise the switch falls
\* through and nothing is returned.
toUrlProtocol(protocol) == IF protocol = HttpRest THEN Returned(Http) ELSE Undefined

BoundedStrings ==
    UNION {[1..n -> Alphabet] : n \in 0..MaxNameLen}

\* Inputs of the Mapper functions: every short string over the alphabet and
\* two relation types as they appear in diagrams.
MapperInputs ==
    BoundedStrings
    \cup {<<"H", "T", "T", "P", "/", "R", "E", "S", "T">>, HttpRest}

MapperIdle == mInput = <<>> /\ mOp = "none" /\ mResult = Undefined

ToId ==
    /\ mOp = "none"
    /\ mOp' = "toId"
    /\ mResult' = Returned(toId(mInput))
    /\ UNCHANGED mInput
    /\ MapperFrame

ToProtocol ==
    /\ mOp = "none"
    /\ mOp' = "toProtocol"
    /\ mResult' = Returned(toProtocol(mInput))
    /\ UNCHANGED mInput
    /\ MapperFrame

ToUrlProtocol ==
    /\ mOp = "none"
    /\ mOp' = "toUrlProtocol"
    /\ mResult' = toUrlProtocol(mInput)
    /\ UNCHANGED mInput
    /\ MapperFrame

-----------------------------------------------------------------------------
(***************************************************************************)
(* PortForwardManager                                                      *)
(***************************************************************************)

\* Most start calls on one PortForwardManager.
MaxStarts == 2
\* Most {service, port} pairs handed to one PortForwardManager in one run
\* (over all its start calls).
MaxProcs == 3
\* Most stderr chunks and close events the subprocesses deliver in one run.
MaxEvents == 2
\* Where the failure phrase is cut when it arrives in two chunks.
SplitAt == 5

\* "error forwarding port"
Phrase == <<"e", "r", "r", "o", "r", " ", "f", "o", "r", "w", "a", "r", "d",
            "i", "n", "g", " ", "p", "o", "r", "t">>

Noise == <<"o", "k">>
PhraseHead == SubSeq(Phrase, 1, SplitAt)
PhraseTail == SubSeq(Phrase, SplitAt + 1, Len(Phrase))

\* The chunks a 'data' event of a subprocess's stderr can carry.
StderrChunks == {Noise \o Phrase, PhraseHead, PhraseTail}

\* The argument of a 'close' event: the exit code, or null when a signal
\* ended the subprocess.
ExitCode(n) == [null |-> FALSE, code |-> n]
Null == [null |-> TRUE, code |-> 0]
CloseCodes == {ExitCode(0), ExitCode(1), ExitCode(255), Null}

\* The closure variable `let childProcesses`. Before its initializer (the map
\* call) has completed, reading it throws (a ReferenceError; in a build that
\* lowers let to var the value is undefined and reading .length throws a
\* TypeError).
Uninitialized == [initialized |-> FALSE, list |-> <<>>]
Initialized(list) == [initialized |-> TRUE, list |-> list]

\* What spawn returns: the ChildProcess, or undefined after a launch failure.
Child(pid) == [defined |-> TRUE, pid |-> pid]
NoChild == [defined |-> FALSE, pid |-> 0]

\* The portInfos of a start call: n pairs, the i-th one named i.
PortLists == {[i \in 1..n |-> i] : n \in 0..MaxProcs}

RECURSIVE Flatten(_)
Flatten(chunks) ==
    IF chunks = <<>> THEN <<>> ELSE Head(chunks) \o Flatten(Tail(chunks))

\* All the bytes subprocess p has written to stderr so far.
StderrStream(p) == Flatten(procs[p].stderr)

RECURSIVE EventsUpTo(_)
EventsUpTo(i) ==
    IF i = 0 THEN 0
    ELSE Len(procs[i].stderr)
         + (IF procs[i].closed THEN 1 ELSE 0) + EventsUpTo(i - 1)

\* The subprocess events handled so far.
Events == EventsUpTo(Len(procs))

\* A handleStderr that takes every chunk for a failure.
EveryChunkMatches(data) == TRUE

\* PortForwardCallbacks.handleStderr: the test made on one data chunk.
HandleStderrMatches(data) == indexOf(data, Phrase) # -1

\* processes.filter(process => process)
RECURSIVE FilterDefined(_)
FilterDefined(processes) ==
    IF processes = <<>> THEN <<>>
    ELSE IF ~Head(processes).defined THEN FilterDefined(Tail(processes))
    ELSE <<Head(processes)>> \o FilterDefined(Tail(processes))

\* A teardown that stops one process instead of the whole array.
OnlyFirst(childProcesses) ==
    IF FilterDefined(childProcesses) = <<>> THEN <<>>
    ELSE <<Head(FilterDefined(childProcesses))>>

\* The processes the onExit closure of start hands to stopPortForwards:
\* [...childProcesses] filtered.
ProcessesToStop(childProcesses) == FilterDefined(childProcesses)

\* stopPortForwards: treeKill(process.pid) for each process.
StopPortForwards(ps, processes) ==
    [p \in 1..Len(ps) |->
        [ps[p] EXCEPT !.kills =
            @ + Cardinality({i \in 1..Len(processes) : processes[i].pid = p})]]

\* The pairs launched last to first.
Reversed(portInfos) == [i \in 1..Len(portInfos) |-> portInfos[Len(portInfos) + 1 - i]]

\* portInfos.map launches in list order.
LaunchOrder(portInfos) == portInfos

\* The subprocess startPortForward launches for one pair.
NewProcess(g, port) ==
    [group |-> g, port |-> port, stderr |-> <<>>,
     closed |-> FALSE, kills |-> 0]

TunnelIdle == supervisor = "running" /\ groups = <<>> /\ procs = <<>>

\* start(portInfos). failAt = 0: every launch succeeds; failAt = k: the k-th
\* childProcess.spawn throws. spawn catches it and calls callbacks.onExit with
\* an error; the closure then reads childProcesses while map is still running,
\* which throws; the exception leaves spawn, startPortForward and map and is
\* caught by start, which logs "Could not start port forwarding".
\* The whole call is synchronous: no subprocess event is handled during it.
Start(portInfos, failAt) ==
    /\ supervisor = "running"
    /\ Len(groups) < MaxStarts
    /\ Len(procs) + Len(portInfos) <= MaxProcs
    /\ failAt \in 0..Len(portInfos)
    /\ LET g == Len(groups) + 1
           order == LaunchOrder(portInfos)
           n == IF failAt = 0 THEN Len(portInfos) ELSE failAt - 1
           children == [i \in 1..n |-> Child(Len(procs) + i)]
       IN  /\ procs' = procs \o [i \in 1..n |-> NewProcess(g, order[i])]
           /\ groups' = Append(groups,
                [portInfos |-> portInfos,
                 childProcesses |-> IF failAt = 0 THEN Initialized(children)
                                   ELSE Uninitialized,
                 started |-> failAt = 0,
                 stopped |-> 0])
    /\ UNCHANGED supervisor
    /\ TunnelFrame

\* A teardown that leaves the array as it was.
KeptAfterTeardown(list) == list

\* The closure's assignment after copying the array: childProcesses = [].
AfterTeardown(list) == <<>>

\* One closure variable shared by all start calls: the newest call's.
NewestGroup(p) == Len(groups)

\* The start call whose onExit closure subprocess p's callbacks hold:
\* startPortForward hands the onExit parameter of its own start call to the
\* PortForwardCallbacks of the subprocess it launches.
ClosureGroup(p) == procs[p].group

\* The onExit closure of start, called with a result that carries an error.
\* It yields the new supervisor state, groups and procs.
OnExitWithError(g) ==
    LET cp == groups[g].childProcesses
    IN  IF ~cp.initialized
        THEN [supervisor |-> "crashed", groups |-> groups, procs |-> procs]
        ELSE IF Len(cp.list) # 0
        THEN [supervisor |-> "running",
              groups |-> [groups EXCEPT ![g].childProcesses =
                                            Initialized(AfterTeardown(cp.list)),
                                        ![g].stopped = @ + 1],
              procs |-> StopPortForwards(procs, ProcessesToStop(cp.list))]
        ELSE [supervisor |-> "running", groups |-> groups, procs |-> procs]

\* A 'data' event of subprocess p's stderr: PortForwardCallbacks.handleStderr.
StderrData(p, data) ==
    /\ supervisor = "running"
    /\ p \in 1..Len(procs)
    /\ ~procs[p].closed
    /\ Events < MaxEvents
    /\ LET seen == [procs EXCEPT ![p].stderr = Append(@, data)]
       IN  IF HandleStderrMatches(data)
           THEN LET after == OnExitWithError(ClosureGroup(p))
                IN  /\ supervisor' = after.supervisor
                    /\ groups' = after.groups
                    /\ procs' = [q \in 1..Len(procs) |->
                                    [after.procs[q] EXCEPT !.stderr = seen[q].stderr]]
           ELSE /\ procs' = seen
                /\ UNCHANGED <<supervisor, groups>>
    /\ TunnelFrame

\* A 'data' event of subprocess p's stdout: NoOpCallbacks.handleStdout.
StdoutData(p) ==
    /\ supervisor = "running"
    /\ p \in 1..Len(procs)
    /\ ~procs[p].closed
    /\ UNCHANGED <<supervisor, groups, procs>>
    /\ TunnelFrame

\* The 'close' event of subprocess p: NoOpCallbacks.handleClose.
Close(p, code) ==
    /\ supervisor = "running"
    /\ p \in 1..Len(procs)
    /\ ~procs[p].closed
    /\ Events < MaxEvents
    /\ code \in CloseCodes
    /\ procs' = [procs EXCEPT ![p].closed = TRUE]
    /\ UNCHANGED <<supervisor, groups>>
    /\ TunnelFrame

\* An operator interrupt (SIGINT). PortForwardManager registers no signal
\* handler and keeps the subprocesses in closure variables only, so the
\* runtime's default applies: the supervisor ends, and no treeKill is called.
Interrupt ==
    /\ supervisor = "running"
    /\ supervisor' = "terminated"
    /\ UNCHANGED <<groups, procs>>
    /\ TunnelFrame

NextTunnel ==
    \/ \E portInfos \in PortLists : \E failAt \in 0..MaxProcs : Start(portInfos, failAt)
    \/ \E p \in 1..Len(procs) : \E data \in StderrChunks : StderrData(p, data)
    \/ \E p \in 1..Len(procs) : StdoutData(p)
    \/ \E p \in 1..Len(procs) : \E code \in CloseCodes : Close(p, code)
    \/ Interrupt

-----------------------------------------------------------------------------
(***************************************************************************)
(* spawn and spawn.promise                                                 *)
(***************************************************************************)

\* Most chunks the child writes to one of its streams.
MaxOutput == 2

\* The chunks the child writes.
OutputChunks == {<<"a">>, <<"b", "c">>}

\* The options argument: true, false, or an object with a stdio field.
SpawnOptions == {"true", "false", "stdio: null", "stdio: inherit"}

\* The stdio setting childProcess.spawn gets: true becomes {stdio: null};
\* anything else is merged over defSpawnOptions = {stdio: 'inherit'}.
EffectiveStdio(options) ==
    IF options = "true" THEN "null"
    ELSE IF options = "stdio: null" THEN "null"
    ELSE "inherit"

\* With stdio null the child's stdout and stderr are pipes and child.stdout,
\* child.stderr exist; with 'inherit' they are null and no handler is attached.
Piped(options) == EffectiveStdio(options) = "null"

\* A ChildProcessResult; error is "none" when the field is absent.
Result(out, err, code, error) ==
    [stdout |-> out, stderr |-> err, exitCode |-> code, error |-> error]

NoResult == Result(<<>>, <<>>, 0, "none")

\* JavaScript truthiness of a close code: null and 0 are falsy.
Truthy(code) == ~code.null /\ code.code # 0

\* A launch failure reported like an exit with code 1.
LaunchFailureResultAsExit == Result(<<>>, <<>>, 1, "launch failed")

\* spawn's catch block: callbacks.onExit({stdout: "", stderr: "", error, exitCode: -1})
LaunchFailureResult == Result(<<>>, <<>>, -1, "launch failed")

\* A handleClose that ignores the close code.
HandleCloseNeverFails(c, returnCode) ==
    Result(c.stdout, c.stderr, 0, "none")

\* StreamCollector.handleClose: the result handed to onExit.
HandleClose(c, returnCode) ==
    IF Truthy(returnCode)
    THEN Result(c.stdout, c.stderr, returnCode.code, "exit with non zero code")
    ELSE Result(c.stdout, c.stderr, 0, "none")

\* StreamCollector.handleStdout: this.stdout += data.
CollectorHandleStdout(c, data) == [c EXCEPT !.stdout = @ \o data]

\* A handleStderr that adds the chunk to the stdout field.
CollectorHandleStderrMixed(c, data) == [c EXCEPT !.stdout = @ \o data]

\* StreamCollector.handleStderr: this.stderr += data.
CollectorHandleStderr(c, data) == [c EXCEPT !.stderr = @ \o data]

\* A promise callback that drops a result carrying an error.
SettleOnlyResolves(pr, result) ==
    IF pr.state # "pending" \/ result.error # "none" THEN pr
    ELSE [state |-> "resolved", value |-> result]

\* The onExit callback of spawn.promise: reject when the result carries an
\* error, resolve otherwise. A settled promise stays as it is.
Settle(pr, result) ==
    IF pr.state # "pending" THEN pr
    ELSE IF result.error # "none" THEN [state |-> "rejected", value |-> result]
    ELSE [state |-> "resolved", value |-> result]

SpawnIdle ==
    /\ spPc = "idle"
    /\ spOptions = "true"
    /\ child = [stdout |-> <<>>, stderr |-> <<>>, code |-> Null]
    /\ collector = [stdout |-> <<>>, stderr |-> <<>>]
    /\ promise = [state |-> "pending", value |-> NoResult]
    /\ onExitCalls = 0
    /\ thrown = FALSE

\* spawn.promise(command, options). The Promise executor runs synchronously
\* and calls spawn with a new StreamCollector. launches = FALSE: the call of
\* childProcess.spawn throws; spawn catches it and calls onExit.
SpawnPromise(options, launches) ==
    /\ spPc = "idle"
    /\ spOptions' = options
    /\ IF launches
       THEN /\ spPc' = "running"
            /\ UNCHANGED <<promise, onExitCalls>>
       ELSE /\ spPc' = "failed"
            /\ promise' = Settle(promise, LaunchFailureResult)
            /\ onExitCalls' = onExitCalls + 1
    /\ UNCHANGED <<child, collector, thrown>>
    /\ SpawnFrame

\* The child writes a chunk to stdout; when it is a pipe, the 'data' event
\* calls StreamCollector.handleStdout: this.stdout += data.
ChildStdout(data) ==
    /\ spPc = "running"
    /\ Len(child.stdout) < MaxOutput
    /\ child' = [child EXCEPT !.stdout = Append(@, data)]
    /\ collector' = IF Piped(spOptions)
                    THEN CollectorHandleStdout(collector, data)
                    ELSE collector
    /\ UNCHANGED <<spPc, spOptions, promise, onExitCalls, thrown>>
    /\ SpawnFrame

\* The same for stderr: StreamCollector.handleStderr.
ChildStderr(data) ==
    /\ spPc = "running"
    /\ Len(child.stderr) < MaxOutput
    /\ child' = [child EXCEPT !.stderr = Append(@, data)]
    /\ collector' = IF Piped(spOptions)
                    THEN CollectorHandleStderr(collector, data)
                    ELSE collector
    /\ UNCHANGED <<spPc, spOptions, promise, onExitCalls, thrown>>
    /\ SpawnFrame

\* The 'close' event of the child: StreamCollector.handleClose(returnCode),
\* which calls onExit.
ChildClose(code) ==
    /\ spPc = "running"
    /\ spPc' = "closed"
    /\ child' = [child EXCEPT !.code = code]
    /\ promise' = Settle(promise, HandleClose(collector, code))
    /\ onExitCalls' = onExitCalls + 1
    /\ UNCHANGED <<spOptions, collector, thrown>>
    /\ SpawnFrame

NextSpawn ==
    \/ \E options \in SpawnOptions : \E launches \in BOOLEAN : SpawnPromise(options, launches)
    \/ \E data \in OutputChunks : ChildStdout(data)
    \/ \E data \in OutputChunks : ChildStderr(data)
    \/ \E code \in CloseCodes : ChildClose(code)

-----------------------------------------------------------------------------
(***************************************************************************)
(* index.ts and config/globalConfig.ts                                     *)
(***************************************************************************)

ConfigKeys == {"container-cli", "compose-cli"}

\* The initial value of globalConfig.
DefaultConfig ==
    [k \in ConfigKeys |-> IF k = "container-cli" THEN "docker" ELSE "docker compose"]

\* The values a config file gives to the keys it defines.
FileValue ==
    [k \in ConfigKeys |-> IF k = "container-cli" THEN "podman" ELSE "podman compose"]

\* A config file: unreadable, not JSON, or an object defining some of the keys.
ConfigFiles ==
    {[status |-> "unreadable", object |-> <<>>], [status |-> "invalid", object |-> <<>>]}
    \cup {[status |-> "ok", object |-> [k \in K |-> FileValue[k]]] : K \in SUBSET ConfigKeys}

\* Reading a property an object does not have yields undefined.
UndefinedValue == "undefined"

\* getGlobalConfig()[key]
ConfigValue(key) ==
    IF key \in DOMAIN globalConfig THEN globalConfig[key] ELSE UndefinedValue

\* The config with the built-in default for every key it does not define.
MergedOverDefaults(config) ==
    [k \in ConfigKeys |-> IF k \in DOMAIN config THEN config[k] ELSE DefaultConfig[k]]

\* A setGlobalConfig that leaves the defaults in place.
setGlobalConfigDropped(config) == DefaultConfig

\* setGlobalConfig: globalConfig = config
setGlobalConfig(config) == config

Commands == {"compile", "deploy", "test", "drop"}

\* The two top-level DeployerFactory.register calls, in order.
Registrations == <<"docker-compose", "kubernetes">>

\* .choices([...]) of the --target option.
TargetChoices == {"docker-compose", "kubernetes"}

\* A default target that no register call names.
DefaultTargetUnregistered == "docker"

\* .default(...) of the --target option.
DefaultTarget == "docker-compose"

\* What --target carries on the command line ("none": the option is absent).
ArgvTargets == {"none", "docker-compose", "kubernetes", "swarm"}

\* How the promise of a command settles: fulfilled, or rejected by a stage.
Outcomes == {"ok", "ParseError", "ValidationError", "UnresolvedComponentError",
             "DeploymentError"}

NoCommand == [command |-> "none", target |-> "none"]

CliIdle ==
    /\ argv = [command |-> "compile", target |-> "none", hook |-> FALSE]
    /\ configFile = [status |-> "unreadable", object |-> <<>>]
    /\ cliPc = "boot"
    /\ registered = <<>>
    /\ programTarget = "none"
    /\ globalConfig = DefaultConfig
    /\ dispatched = NoCommand
    /\ outcome = "none"
    /\ exitCode = 0
    /\ logged = <<>>

\* DeployerFactory.register(...): the next of the two top-level calls.
RegisterDeployer ==
    /\ cliPc = "boot"
    /\ registered' = Append(registered, Registrations[Len(registered) + 1])
    /\ cliPc' = IF Len(registered') = Len(Registrations) THEN "registered" ELSE "boot"
    /\ UNCHANGED <<argv, configFile, programTarget, globalConfig, dispatched,
                   outcome, exitCode, logged>>
    /\ CliFrame

\* start: program.parse(argv) reads the options. A --target outside the
\* choices makes commander report the error and exit with code 1.
ParseOptions ==
    /\ cliPc = "registered"
    /\ IF argv.target = "none"
       THEN /\ programTarget' = DefaultTarget
            /\ cliPc' = "parsed"
            /\ UNCHANGED exitCode
       ELSE IF argv.target \in TargetChoices
       THEN /\ programTarget' = argv.target
            /\ cliPc' = "parsed"
            /\ UNCHANGED exitCode
       ELSE /\ cliPc' = "exited"
            /\ exitCode' = 1
            /\ UNCHANGED programTarget
    /\ UNCHANGED <<argv, configFile, registered, globalConfig, dispatched,
                   outcome, logged>>
    /\ CliFrame

\* The preAction hook: readFileSync, JSON.parse, setGlobalConfig. When one of
\* the first two throws, the exception leaves program.parse and start and is
\* logged by the top-level catch; nothing else is pending, the process ends.
\* The build without the --config-file option has no hook.
PreAction ==
    /\ cliPc = "parsed"
    /\ IF ~argv.hook
       THEN /\ cliPc' = "hooked"
            /\ UNCHANGED <<globalConfig, logged>>
       ELSE IF configFile.status = "ok"
       THEN /\ globalConfig' = setGlobalConfig(configFile.object)
            /\ cliPc' = "hooked"
            /\ UNCHANGED logged
       ELSE /\ cliPc' = "exited"
            /\ logged' = Append(logged, configFile.status)
            /\ UNCHANGED globalConfig
    /\ UNCHANGED <<argv, configFile, registered, programTarget, dispatched,
                   outcome, exitCode>>
    /\ CliFrame

\* getOption(options, "target"): options[key] || program.opts()[key]; the
\* subcommand defines no target option of its own.
GetTarget == programTarget

\* The action of the subcommand: it calls the command function with the
\* target and attaches .catch(reason => console.log(reason)).
CommandAction ==
    /\ cliPc = "hooked"
    /\ dispatched' = [command |-> argv.command, target |-> GetTarget]
    /\ cliPc' = "pending"
    /\ UNCHANGED <<argv, configFile, registered, programTarget, globalConfig,
                   outcome, exitCode, logged>>
    /\ CliFrame

\* The promise of the command settles; a rejection is logged by the catch
\* handler. Nothing sets process.exitCode, and the process ends.
CommandSettles(how) ==
    /\ cliPc = "pending"
    /\ outcome' = how
    /\ logged' = IF how = "ok" THEN logged ELSE Append(logged, how)
    /\ cliPc' = "exited"
    /\ UNCHANGED <<argv, configFile, registered, programTarget, globalConfig,
                   dispatched, exitCode>>
    /\ CliFrame

NextCli ==
    \/ RegisterDeployer
    \/ ParseOptions
    \/ PreAction
    \/ CommandAction
    \/ \E how \in Outcomes : CommandSettles(how)

-----------------------------------------------------------------------------
(***************************************************************************)
(* The base service: BaseService.java and the Go service                   *)
(***************************************************************************)

\* Most entities a service generates (microzoo.entityCount).
MaxEntities == 2

\* Most upstream services of a configuration.
MaxUpstreams == 2

\* Upstream service URLs; the last one is not a valid URI.
UpstreamUrls == {"http://a", "http://b", "bad uri"}

UpstreamLists == UNION {[1..n -> UpstreamUrls] : n \in 0..MaxUpstreams}

\* No database, PostgreSQL through DB_HOST, or MongoDB through MONGO_URI; on
\* the Java side a BaseRepository bean exists exactly when there is one.
Databases == {"none", "sql", "mongo"}

\* A BaseDto, named by who produced it and a number.
Entity(origin, n) == [origin |-> origin, n |-> n]

PostedDtos == {Entity("client", 1), Entity("client", 2)}

\* dbHealthy: the database answers; it matters only when there is one.
Configs ==
    {c \in [db : Databases, dbHealthy : BOOLEAN,
            upstreamServices : UpstreamLists, entityCount : 0..MaxEntities] :
        c.db = "none" => c.dbHealthy}

\* GET /api/base, or POST /api/base with a body that binds to a BaseDto or
\* does not.
Requests ==
    {[op |-> "getAll", valid |-> TRUE, dto |-> Entity("client", 1)]}
    \cup [op : {"create"}, valid : BOOLEAN, dto : PostedDtos]

\* The rows stored before the request.
StoredRows == {<<>>, <<Entity("client", 1)>>}

\* What a service answers: where the data came from, the kind of result, the
\* entities in it, the HTTP status ("none" for the value BaseService returns)
\* and the number of calls made to upstream services.
ServiceResult(source, kind, items, status, calls) ==
    [source |-> source, kind |-> kind, items |-> items, status |-> status,
     calls |-> calls]

NoServiceResult == ServiceResult("none", "none", <<>>, "none", 0)

\* save / INSERT ... ON CONFLICT DO UPDATE / upsert: one row per id.
Upsert(rows, dto) ==
    IF \E i \in 1..Len(rows) : rows[i] = dto THEN rows ELSE Append(rows, dto)

\* getServiceUri: new URI(service + "/api") throws URISyntaxException for a
\* string that is no URI.
ValidUri(service) == service # "bad uri"

\* What the upstream service answers to baseClient.getAll.
UpstreamGetAll(service) ==
    IF service = "http://a" THEN <<Entity(service, 1), Entity(service, 2)>>
    ELSE <<Entity(service, 1)>>

\* What the upstream service answers to baseClient.create.
UpstreamCreate(service, dto) == Entity(service, dto.n)

\* BaseService.isUpstreamValid: the client exists and the upstream-services
\* property is set.
isUpstreamValid(cfg) == cfg.upstreamServices # <<>>

\* BaseDtoFactory.createArray(entityCount, payloadSize)
createArray(entityCount) == [i \in 1..entityCount |-> Entity("java", i)]

\* BaseService.getFromServices: the entities of every upstream service with
\* a valid URI, in order.
RECURSIVE getFromServices(_)
getFromServices(services) ==
    IF services = <<>> THEN [items |-> <<>>, calls |-> 0]
    ELSE LET rest == getFromServices(Tail(services))
         IN  IF ValidUri(Head(services))
             THEN [items |-> UpstreamGetAll(Head(services)) \o rest.items,
                   calls |-> rest.calls + 1]
             ELSE rest

\* BaseService.postToServices: the dto is posted to every upstream service
\* with a valid URI; the result is the answer of the last of them, null
\* (no item) when there is none.
RECURSIVE postToServices(_, _)
postToServices(services, dto) ==
    IF services = <<>> THEN [items |-> <<>>, calls |-> 0]
    ELSE LET last == services[Len(services)]
             front == postToServices(SubSeq(services, 1, Len(services) - 1), dto)
         IN  IF ValidUri(last)
             THEN [items |-> <<UpstreamCreate(last, dto)>>, calls |-> front.calls + 1]
             ELSE front

\* BaseService.getAll
BaseServiceGetAll(cfg, rows) ==
    IF cfg.db # "none"
    THEN IF cfg.dbHealthy
         THEN ServiceResult("database", "list", rows, "none", 0)
         ELSE ServiceResult("database", "failure", <<>>, "none", 0)
    ELSE IF isUpstreamValid(cfg)
    THEN LET r == getFromServices(cfg.upstreamServices)
         IN  ServiceResult("upstream", "list", r.items, "none", r.calls)
    ELSE ServiceResult("local", "list", createArray(cfg.entityCount), "none", 0)

\* BaseService.create: the saved entity, the answer of the upstream
\* services, or null.
BaseServiceCreate(cfg, dto) ==
    IF cfg.db # "none"
    THEN IF cfg.dbHealthy
         THEN ServiceResult("database", "dto", <<dto>>, "none", 0)
         ELSE ServiceResult("database", "failure", <<>>, "none", 0)
    ELSE IF isUpstreamValid(cfg)
    THEN LET r == postToServices(cfg.upstreamServices, dto)
         IN  ServiceResult("upstream", IF r.items = <<>> THEN "null" ELSE "dto",
                           r.items, "none", r.calls)
    ELSE ServiceResult("local", "null", <<>>, "none", 0)

\* main.go isDBActive: sqlDB != nil || mongoClient != nil
isDBActive(cfg) == cfg.db # "none"

\* The dummy entity the Go service appends for each upstream URL, without
\* calling it.
GoUpstreamDummies(services) == [i \in 1..Len(services) |-> Entity(services[i], 1)]

\* generateBaseDto for 1..EntityCount
GoGenerated(entityCount) == [i \in 1..entityCount |-> Entity("go", i)]

\* getAll of the Go service without database support.
GoLegacyGetAllResponse(cfg) ==
    IF Len(cfg.upstreamServices) > 0
    THEN ServiceResult("upstream", "list", GoUpstreamDummies(cfg.upstreamServices),
                       "200", 0)
    ELSE ServiceResult("local", "list", GoGenerated(cfg.entityCount), "200", 0)

\* create of the Go service without database support.
GoLegacyCreateResponse(cfg, req) ==
    IF ~req.valid THEN ServiceResult("none", "failure", <<>>, "400", 0)
    ELSE IF Len(cfg.upstreamServices) > 0
    THEN ServiceResult("upstream", "dto", <<req.dto>>, "201", 0)
    ELSE ServiceResult("local", "dto", <<req.dto>>, "201", 0)

\* main.go getAll
GoGetAllResponse(cfg, rows) ==
    IF isDBActive(cfg)
    THEN IF cfg.dbHealthy
         THEN ServiceResult("database", "list", rows, "200", 0)
         ELSE ServiceResult("database", "failure", <<>>, "500", 0)
    ELSE IF Len(cfg.upstreamServices) > 0
    THEN ServiceResult("upstream", "list", GoUpstreamDummies(cfg.upstreamServices),
                       "200", 0)
    ELSE ServiceResult("local", "list", GoGenerated(cfg.entityCount), "200", 0)

\* main.go create
GoCreateResponse(cfg, req) ==
    IF ~req.valid THEN ServiceResult("none", "failure", <<>>, "400", 0)
    ELSE IF isDBActive(cfg)
    THEN IF cfg.dbHealthy
         THEN ServiceResult("database", "dto", <<req.dto>>, "201", 0)
         ELSE ServiceResult("database", "failure", <<>>, "500", 0)
    ELSE IF Len(cfg.upstreamServices) > 0
    THEN ServiceResult("upstream", "dto", <<req.dto>>, "201", 0)
    ELSE ServiceResult("local", "dto", <<req.dto>>, "201", 0)

ServiceIdle ==
    /\ svConfig = [db |-> "none", dbHealthy |-> TRUE, upstreamServices |-> <<>>,
                   entityCount |-> 0]
    /\ svRequest = [op |-> "getAll", valid |-> TRUE, dto |-> Entity("client", 1)]
    /\ javaRepository = <<>>
    /\ goDatabase = <<>>
    /\ javaResult = NoServiceResult
    /\ goResult = NoServiceResult
    /\ goLegacyResult = NoServiceResult

\* The Java service handles GET: BaseService.getAll.
JavaGetAll ==
    /\ svRequest.op = "getAll"
    /\ javaResult = NoServiceResult
    /\ javaResult' = BaseServiceGetAll(svConfig, javaRepository)
    /\ UNCHANGED <<svConfig, svRequest, javaRepository, goDatabase, goResult,
                   goLegacyResult>>
    /\ ServiceFrame

\* The Java service handles POST with a body that binds: BaseService.create.
JavaCreate ==
    /\ svRequest.op = "create"
    /\ svRequest.valid
    /\ javaResult = NoServiceResult
    /\ javaResult' = BaseServiceCreate(svConfig, svRequest.dto)
    /\ javaRepository' = IF javaResult'.source = "database" /\ javaResult'.kind = "dto"
                         THEN Upsert(javaRepository, svRequest.dto)
                         ELSE javaRepository
    /\ UNCHANGED <<svConfig, svRequest, goDatabase, goResult, goLegacyResult>>
    /\ ServiceFrame

\* main.go handles GET.
GoGetAll ==
    /\ svRequest.op = "getAll"
    /\ goResult = NoServiceResult
    /\ goResult' = GoGetAllResponse(svConfig, goDatabase)
    /\ UNCHANGED <<svConfig, svRequest, javaRepository, goDatabase, javaResult,
                   goLegacyResult>>
    /\ ServiceFrame

\* main.go handles POST.
GoCreate ==
    /\ svRequest.op = "create"
    /\ goResult = NoServiceResult
    /\ goResult' = GoCreateResponse(svConfig, svRequest)
    /\ goDatabase' = IF goResult'.source = "database" /\ goResult'.kind = "dto"
                     THEN Upsert(goDatabase, svRequest.dto)
                     ELSE goDatabase
    /\ UNCHANGED <<svConfig, svRequest, javaRepository, javaResult, goLegacyResult>>
    /\ ServiceFrame

\* The Go service without database support handles GET.
GoLegacyGetAll ==
    /\ svRequest.op = "getAll"
    /\ goLegacyResult = NoServiceResult
    /\ goLegacyResult' = GoLegacyGetAllResponse(svConfig)
    /\ UNCHANGED <<svConfig, svRequest, javaRepository, goDatabase, javaResult,
                   goResult>>
    /\ ServiceFrame

\* The Go service without database support handles POST.
GoLegacyCreate ==
    /\ svRequest.op = "create"
    /\ goLegacyResult = NoServiceResult
    /\ goLegacyResult' = GoLegacyCreateResponse(svConfig, svRequest)
    /\ UNCHANGED <<svConfig, svRequest, javaRepository, goDatabase, javaResult,
                   goResult>>
    /\ ServiceFrame

NextService ==
    \/ JavaGetAll
    \/ JavaCreate
    \/ GoGetAll
    \/ GoCreate
    \/ GoLegacyGetAll
    \/ GoLegacyCreate

-----------------------------------------------------------------------------
(***************************************************************************)
(* Specifications, one per unit                                            *)
(***************************************************************************)

NextMapper == ToId \/ ToProtocol \/ ToUrlProtocol

\* The Mapper functions applied to a drawn input.
InitMapper ==
    /\ mInput \in MapperInputs
    /\ mOp = "none"
    /\ mResult = Undefined
    /\ TunnelIdle
    /\ SpawnIdle
    /\ CliIdle
    /\ ServiceIdle

SpecMapper == InitMapper /\ [][NextMapper]_vars

\* A PortForwardManager after construction: nothing started yet.
InitTunnel ==
    /\ supervisor = "running"
    /\ groups = <<>>
    /\ procs = <<>>
    /\ MapperIdle
    /\ SpawnIdle
    /\ CliIdle
    /\ ServiceIdle

SpecTunnel == InitTunnel /\ [][NextTunnel]_vars

\* Before a spawn.promise call.
InitSpawn ==
    /\ SpawnIdle
    /\ MapperIdle
    /\ TunnelIdle
    /\ CliIdle
    /\ ServiceIdle

SpecSpawn == InitSpawn /\ [][NextSpawn]_vars

\* The process starts: a command line and a config file are given.
InitCli ==
    /\ argv \in [command : Commands, target : ArgvTargets, hook : BOOLEAN]
    /\ configFile \in ConfigFiles
    /\ cliPc = "boot"
    /\ registered = <<>>
    /\ programTarget = "none"
    /\ globalConfig = DefaultConfig
    /\ dispatched = NoCommand
    /\ outcome = "none"
    /\ exitCode = 0
    /\ logged = <<>>
    /\ MapperIdle
    /\ TunnelIdle
    /\ SpawnIdle
    /\ ServiceIdle

SpecCli == InitCli /\ [][NextCli]_vars

\* One configuration, the rows already stored, and one request that is sent
\* to each of the three services.
InitService ==
    /\ svConfig \in Configs
    /\ svRequest \in Requests
    /\ javaRepository \in StoredRows
    /\ goDatabase = javaRepository
    /\ javaResult = NoServiceResult
    /\ goResult = NoServiceResult
    /\ goLegacyResult = NoServiceResult
    /\ MapperIdle
    /\ TunnelIdle
    /\ SpawnIdle
    /\ CliIdle

SpecService == InitService /\ [][NextService]_vars

-----------------------------------------------------------------------------
(***************************************************************************)
(* Properties of the PortForwardManager                                    *)
(***************************************************************************)

\* The string s contains the failure phrase.
ContainsPhrase(s) ==
    \E i \in 1..Len(s) : i + Len(Phrase) - 1 <= Len(s)
                         /\ SubSeq(s, i, i + Len(Phrase) - 1) = Phrase

\* Subprocess p has delivered a stderr chunk that contains the failure phrase.
EmittedPhraseInChunk(p) ==
    \E i \in 1..Len(procs[p].stderr) : ContainsPhrase(procs[p].stderr[i])

GroupProcs(g) == {p \in 1..Len(procs) : procs[p].group = g}

\* treeKill has been called on every subprocess of group g.
GroupKilled(g) == \A q \in GroupProcs(g) : procs[q].kills >= 1

\* The ports of the subprocesses launched for group g, in launch (pid) order.
LaunchedPorts(g) ==
    LET mine == SelectSeq([p \in 1..Len(procs) |-> [pid |-> p, group |-> procs[p].group]],
                          LAMBDA r : r.group = g)
    IN  [i \in 1..Len(mine) |-> procs[mine[i].pid].port]

\* C1: when a start call has launched a subprocess for every one of its n
\* pairs and one of them delivers a stderr chunk containing "error forwarding
\* port", treeKill has been called on every one of the n subprocesses of that
\* call, the failing one and all its siblings.
C1_FailureKillsWholeGroup ==
    \A p \in 1..Len(procs) :
        (groups[procs[p].group].started /\ EmittedPhraseInChunk(p))
            => GroupKilled(procs[p].group)

\* Three tunnels, the second one failed, the two silent siblings were killed too.
C1_Witness ==
    \E g \in 1..Len(groups) :
        /\ groups[g].started
        /\ Len(groups[g].portInfos) = 3
        /\ \E p \in GroupProcs(g) :
              /\ procs[p].port = 2
              /\ EmittedPhraseInChunk(p)
              /\ \A q \in GroupProcs(g) \ {p} :
                    procs[q].stderr = <<>> /\ procs[q].kills = 1
              /\ procs[p].kills = 1

\* C7: once an operator interrupt has been handled, treeKill has been called
\* on every subprocess that was outstanding (launched and not yet closed).
C7_InterruptKillsOutstanding ==
    supervisor = "terminated" =>
        \A p \in 1..Len(procs) : ~procs[p].closed => procs[p].kills >= 1

\* C8: whenever the stderr stream of a subprocess of a started group contains
\* the failure phrase, however it was cut into chunks, the group has been
\* torn down.
C8_PhraseInStreamKillsGroup ==
    \A p \in 1..Len(procs) :
        (groups[procs[p].group].started /\ ContainsPhrase(StderrStream(p)))
            => GroupKilled(procs[p].group)

\* C9: the subprocesses of a start call are launched one per pair, in list
\* order (a start call that launched them all has exactly its list), and a
\* subprocess is launched only by a start call: no other step, in particular
\* none after a teardown, adds a subprocess.
C9_OneLaunchPerPairOnlyInStart ==
    /\ [](\A g \in 1..Len(groups) :
            LET l == LaunchedPorts(g)
            IN  /\ Len(l) <= Len(groups[g].portInfos)
                /\ l = SubSeq(groups[g].portInfos, 1, Len(l))
                /\ groups[g].started => l = groups[g].portInfos)
    /\ [][/\ Len(procs') >= Len(procs)
          /\ \A p \in 1..Len(procs) :
                procs'[p].group = procs[p].group /\ procs'[p].port = procs[p].port
          /\ Len(procs') # Len(procs) => Len(groups') = Len(groups) + 1]_vars

\* A group was torn down after a failure and got no new subprocess; the
\* tunnels came back through a second start call, one per pair.
C9_Witness ==
    /\ Len(groups) = 2
    /\ groups[1].started /\ groups[1].stopped = 1
    /\ LaunchedPorts(1) = groups[1].portInfos
    /\ groups[2].started /\ Len(groups[2].portInfos) = 2
    /\ LaunchedPorts(2) = <<1, 2>>

-----------------------------------------------------------------------------
(***************************************************************************)
(* Properties of spawn.promise                                             *)
(***************************************************************************)

\* C2: in capture mode (options === true), once the child has closed with a
\* numeric exit code, the promise is resolved with {stdout, stderr, exitCode 0}
\* when the code is zero, and rejected with the collected stdout and stderr,
\* the exit code and an error when the code is not zero; never the other way
\* round.
C2_CaptureSettlesByExitCode ==
    (spPc = "closed" /\ spOptions = "true" /\ ~child.code.null) =>
        /\ promise.value.stdout = collector.stdout
        /\ promise.value.stderr = collector.stderr
        /\ promise.value.exitCode = child.code.code
        /\ child.code.code = 0 =>
              promise.state = "resolved" /\ promise.value.error = "none"
        /\ child.code.code # 0 =>
              promise.state = "rejected" /\ promise.value.error # "none"

\* The child wrote to both streams and exited with 255: rejected, with the
\* output and the code.
C2_Witness ==
    /\ spPc = "closed" /\ spOptions = "true"
    /\ child.code = ExitCode(255)
    /\ child.stdout # <<>> /\ child.stderr # <<>>
    /\ promise.state = "rejected"
    /\ promise.value.exitCode = 255
    /\ promise.value.stdout # <<>>

\* C3: a launch failure surfaces synchronously as an error thrown to the
\* caller and never as a rejected promise.
C3_LaunchFailureThrownNotRejected ==
    spPc = "failed" => (thrown /\ promise.state # "rejected")

\* C3 as the code has it: a launch failure (childProcess.spawn throwing) is
\* never thrown to the caller of spawn.promise; the promise is rejected, at
\* once, with exitCode -1, empty stdout and stderr and the error; a child
\* that ran and exited non-zero rejects with its exit code, which is never
\* -1, so the two stay distinguishable.
C3_LaunchFailureRejectsWithMinusOne ==
    /\ spPc = "failed" =>
          /\ ~thrown
          /\ promise.state = "rejected"
          /\ promise.value.exitCode = -1
          /\ promise.value.error # "none"
          /\ promise.value.stdout = <<>> /\ promise.value.stderr = <<>>
    /\ (spPc = "closed" /\ promise.state = "rejected") =>
          promise.value.exitCode >= 1

\* A spawn.promise call whose launch threw.
C3_Witness ==
    /\ spPc = "failed"
    /\ promise.state = "rejected"
    /\ onExitCalls = 1

-----------------------------------------------------------------------------
(***************************************************************************)
(* Properties of the command line program, the configuration and Mapper    *)
(***************************************************************************)

SeqRange(q) == {q[i] : i \in 1..Len(q)}

\* C4: when the process ends after a command was dispatched, its exit code
\* is zero if the command succeeded and non-zero if its promise was rejected.
C4_ExitCodeReflectsOutcome ==
    (cliPc = "exited" /\ dispatched.command \in Commands) =>
        (exitCode = 0 <=> outcome = "ok")

\* C5: after the preAction hook has applied the config file, every built-in
\* key reads as the file's value when the file defines it and as the built-in
\* default when it does not.
C5_ConfigFallsBackToDefaults ==
    (argv.hook /\ cliPc = "hooked") =>
        \A k \in ConfigKeys :
            ConfigValue(k) = MergedOverDefaults(configFile.object)[k]

\* C6: Mapper.toId returns the name lower-cased with every space removed: no
\* space and no upper-case letter is left.
C6_ToIdStripsAllSpaces ==
    mOp = "toId" =>
        /\ mResult.value = toIdAllSpaces(mInput)
        /\ \A i \in 1..Len(mResult.value) :
              mResult.value[i] # " " /\ ~IsUpper(mResult.value[i])

\* C10: each deployer identifier is registered at most once, "docker-compose"
\* before "kubernetes"; both are registered before the command line is parsed,
\* hence before any command action; the target the options yield, and the
\* target a command is called with, is a registered identifier.
C10_RegisteredOnceBeforeDispatch ==
    /\ Len(registered) <= Len(Registrations)
    /\ registered = SubSeq(Registrations, 1, Len(registered))
    /\ cliPc # "boot" => SeqRange(registered) = {"docker-compose", "kubernetes"}
    /\ cliPc \in {"parsed", "hooked", "pending"} => programTarget \in SeqRange(registered)
    /\ dispatched.command # "none" =>
          /\ Len(registered) = 2
          /\ dispatched.target \in SeqRange(registered)

\* A command dispatched with no --target on the command line: it gets the
\* default, after both registrations.
C10_Witness ==
    /\ cliPc = "pending"
    /\ argv.target = "none"
    /\ dispatched.command = "deploy"
    /\ dispatched.target = "docker-compose"
    /\ registered = <<"docker-compose", "kubernetes">>

-----------------------------------------------------------------------------
(***************************************************************************)
(* Properties of spawn: captured output and completion                     *)
(***************************************************************************)

\* C11: when the child has closed, with piped stdio (capture mode) the stdout
\* field of the result is the concatenation, in arrival order, of the chunks
\* the child wrote to stdout, and the stderr field that of the chunks it wrote
\* to stderr; with inherited stdio both fields are empty.
C11_CapturedStreamsInArrivalOrder ==
    spPc = "closed" =>
        IF spOptions \in {"true", "stdio: null"}
        THEN /\ promise.value.stdout = Flatten(child.stdout)
             /\ promise.value.stderr = Flatten(child.stderr)
        ELSE /\ promise.value.stdout = <<>>
             /\ promise.value.stderr = <<>>

\* A capture-mode child that interleaved two chunks on each stream, in
\* opposite orders, and closed.
C11_Witness ==
    /\ spPc = "closed"
    /\ spOptions = "true"
    /\ child.stdout = << <<"a">>, <<"b", "c">> >>
    /\ child.stderr = << <<"b", "c">>, <<"a">> >>
    /\ promise.value.stdout = <<"a", "b", "c">>
    /\ promise.value.stderr = <<"b", "c", "a">>

\* C15: the promise is resolved only when the child closed with exit code 0;
\* a close with a null code (the child was ended by a signal) never leaves the
\* promise resolved.
C15_ResolvesOnlyOnExitCodeZero ==
    promise.state = "resolved" =>
        /\ spPc = "closed"
        /\ child.code = ExitCode(0)

\* C16: onExit is called exactly once per spawn.promise call, for the launch
\* failure or for the close event, never for both and never twice; and once
\* the launch has failed or the child has closed the promise is settled.
C16_OnExitOnceAndSettled ==
    /\ onExitCalls <= 1
    /\ spPc \in {"idle", "running"} =>
          onExitCalls = 0 /\ promise.state = "pending"
    /\ spPc \in {"failed", "closed"} =>
          onExitCalls = 1 /\ promise.state # "pending"

\* A child that wrote to both streams and closed with a non-zero code: one
\* onExit call, the promise rejected.
C16_Witness ==
    /\ spPc = "closed"
    /\ onExitCalls = 1
    /\ child.code = ExitCode(1)
    /\ Len(child.stdout) > 0
    /\ Len(child.stderr) > 0
    /\ promise.state = "rejected"

-----------------------------------------------------------------------------
(***************************************************************************)
(* Properties of the PortForwardManager: independence and teardown         *)
(***************************************************************************)

\* The last stderr chunk subprocess q has delivered after a step.
LastChunk(q) == procs'[q].stderr[Len(procs'[q].stderr)]

\* C12: a step changes the treeKill count of a subprocess only when a
\* subprocess of the same start call delivers, in that step, a stderr chunk
\* containing the failure phrase, and then treeKill is called once on every
\* subprocess of that call; a stdout chunk, a stderr chunk without the
\* phrase and a close with any exit code change no treeKill count.
C12_KillOnlyInGroupTeardown ==
    [][\A p \in 1..Len(procs) :
          procs'[p].kills # procs[p].kills =>
              /\ \E q \in GroupProcs(procs[p].group) :
                    /\ Len(procs'[q].stderr) = Len(procs[q].stderr) + 1
                    /\ ContainsPhrase(LastChunk(q))
              /\ \A q \in GroupProcs(procs[p].group) :
                    /\ procs'[q].kills = procs[q].kills + 1
                    /\ procs'[q].closed = procs[q].closed]_vars

\* Two tunnels of one start call: one wrote a stderr chunk without the whole
\* phrase, the other closed; nothing was killed.
C12_Witness ==
    \E g \in 1..Len(groups) :
        /\ groups[g].started
        /\ \E p, q \in GroupProcs(g) :
              /\ p # q
              /\ procs[p].stderr = <<PhraseHead>>
              /\ procs[q].closed
        /\ \A p \in GroupProcs(g) : procs[p].kills = 0

\* C17: every launched subprocess is either supervised (it is in the array
\* the onExit closure of its start call tears down) or has been tree-killed;
\* in particular the subprocesses launched before a failing launch are not
\* left running outside any such array.
C17_LaunchedIsSupervisedOrKilled ==
    \A p \in 1..Len(procs) :
        procs[p].kills = 0 =>
            LET cp == groups[procs[p].group].childProcesses
            IN  /\ cp.initialized
                /\ \E i \in 1..Len(cp.list) : cp.list[i] = Child(p)

\* C18: the teardown of a start call runs at most once and treeKill is
\* called at most once on each subprocess, however many failure phrases the
\* subprocesses of the call deliver.
C18_TeardownAtMostOnce ==
    /\ \A g \in 1..Len(groups) : groups[g].stopped <= 1
    /\ \A p \in 1..Len(procs) : procs[p].kills <= 1

\* Two failure phrases delivered by two subprocesses of one start call: one
\* teardown, one treeKill each.
C18_Witness ==
    \E g \in 1..Len(groups) :
        /\ groups[g].stopped = 1
        /\ \E p, q \in GroupProcs(g) :
              p # q /\ EmittedPhraseInChunk(p) /\ EmittedPhraseInChunk(q)
        /\ \A p \in GroupProcs(g) : procs[p].kills = 1

\* C19: treeKill has been called on a subprocess only if a subprocess of its
\* own start call delivered a failure phrase, so a phrase from a group torn
\* down earlier kills nothing in a later group; and a phrase from a
\* subprocess of a started group has killed exactly that group's
\* subprocesses, once each.
C19_GroupsIsolated ==
    \A g \in 1..Len(groups) :
        /\ (\E p \in GroupProcs(g) : procs[p].kills >= 1) =>
              \E q \in GroupProcs(g) : EmittedPhraseInChunk(q)
        /\ (groups[g].started /\ \E q \in GroupProcs(g) : EmittedPhraseInChunk(q)) =>
              \A p \in GroupProcs(g) : procs[p].kills = 1

\* The only subprocess of the first start call failed, was torn down and
\* delivered a second failure phrase; the two subprocesses of the second
\* start call are untouched.
C19_Witness ==
    /\ Len(groups) = 2
    /\ groups[1].stopped = 1
    /\ \E p \in GroupProcs(1) :
          /\ Len(procs[p].stderr) = 2
          /\ \A i \in 1..2 : ContainsPhrase(procs[p].stderr[i])
    /\ groups[2].started
    /\ Cardinality(GroupProcs(2)) = 2
    /\ \A p \in GroupProcs(2) : procs[p].kills = 0

-----------------------------------------------------------------------------
(***************************************************************************)
(* Properties of the Mapper and of the configuration hook                  *)
(***************************************************************************)

\* C13: toProtocol returns the type in lower case with every "/" replaced by
\* "-", so the result has no "/" and no upper-case letter; toUrlProtocol
\* returns "http" exactly for "http-rest" and nothing for any other input.
C13_ToProtocolReplacesEverySlash ==
    /\ mOp = "toProtocol" =>
          /\ mResult.value = toProtocolAllSlashes(mInput)
          /\ \A i \in 1..Len(mResult.value) :
                mResult.value[i] # "/" /\ ~IsUpper(mResult.value[i])
    /\ mOp = "toUrlProtocol" =>
          (mResult = Returned(Http)) <=> (mInput = HttpRest)

\* C20: in the build with the --config-file option, a subcommand action has
\* run only after the file was read, parsed and made the global
\* configuration; when reading or parsing fails no subcommand action runs,
\* no command settles, the global configuration is still the defaults and
\* the failure is what the top-level catch logged.
C20_ConfigAppliedBeforeAction ==
    argv.hook =>
        /\ dispatched # NoCommand =>
              /\ configFile.status = "ok"
              /\ globalConfig = configFile.object
        /\ configFile.status # "ok" =>
              /\ dispatched = NoCommand
              /\ outcome = "none"
              /\ globalConfig = DefaultConfig
              /\ (cliPc = "exited" /\ programTarget # "none") =>
                    logged = <<configFile.status>>

\* A deploy dispatched after a config file defining both keys was applied.
C20_Witness ==
    /\ argv.hook
    /\ configFile.status = "ok"
    /\ DOMAIN configFile.object = ConfigKeys
    /\ dispatched.command = "deploy"
    /\ globalConfig = FileValue

-----------------------------------------------------------------------------
(***************************************************************************)
(* Properties of the base service                                          *)
(***************************************************************************)

\* C14: for every configuration and request that both BaseService and a Go
\* service have answered, the Go service took its data from the same source
\* and gave the same kind of result; without database and upstream services
\* getAll gave exactly entityCount entities in both, and create gave the
\* same result in both.
C14_GoMirrorsJava ==
    \A go \in {goResult, goLegacyResult} :
        (javaResult # NoServiceResult /\ go # NoServiceResult) =>
            /\ go.source = javaResult.source
            /\ go.kind = javaResult.kind
            /\ (svRequest.op = "getAll" /\ javaResult.source = "local") =>
                  /\ Len(javaResult.items) = svConfig.entityCount
                  /\ Len(go.items) = svConfig.entityCount
            /\ (svRequest.op = "create" /\ javaResult.source = "local") =>
                  go.items = javaResult.items

=============================================================================
